---- MODULE Spec2Model ----
(***************************************************************************)
(* A model of tree.cpp: the handle wrappers fd_t and dir_t, the Entry      *)
(* file_t, the directory iterator iter_t and the recursive renderer        *)
(* print_rec / print, driven by main's show().  The operating system       *)
(* (descriptor table, open file descriptions, directory streams) and the   *)
(* filesystem are modelled as far as the program observes them.            *)
(***************************************************************************)
EXTENDS Integers, Sequences, FiniteSets, TLC

VARIABLES
    phase,    \* position of main/show: "start", "walk", "done", "thrown", "handles"
    depthArg, \* the user's depth limit (-1: none), before main's adjustment
    stack,    \* the active print_rec frames, outermost first
    lines,    \* print_rec's std::vector<bool>& lines
    out,      \* the tokens written to the output stream
    fdobj,    \* the fd_t objects (held by shared_fd, or plain in wrapper runs)
    dirobj,   \* the dir_t objects (held by shared_dir, or plain in wrapper runs)
    fdtab,    \* the process's descriptor table: fd -> open file description
    ofds,     \* the open file descriptions: directory, read position
    ebadf,    \* whether ::close / ::closedir was ever handed a handle that is not open
    faults,   \* how many more environment failures may be injected
    persist,  \* whether a readdir failure of a stream persists on later reads
    tick      \* flips at every step the program takes

vars == <<phase, depthArg, stack, lines, out, fdobj, dirobj, fdtab, ofds,
          ebadf, faults, persist, tick>>

(***************************************************************************)
(* Bounds of the model.                                                    *)
(***************************************************************************)
MaxDepth == 2
MaxFaults == 2
MaxFd == 9
MaxObj == 4
MaxOut == 96
MaxKids == 6
MaxWrap == 2

(***************************************************************************)
(* Values.                                                                 *)
(***************************************************************************)
NullOpt == "nullopt"
NoErr == "none"
Dot == "."
DotDot == ".."
AT_FDCWD == -100
S_IFMT == 61440
S_IFDIR == 16384
S_IFREG == 32768
S_IFLNK == 40960

FdRange == 3..MaxFd
ObjRange == 1..MaxObj

Min(S) == CHOOSE x \in S : \A y \in S : x <= y

(***************************************************************************)
(* The filesystem the walk runs over: A/B/C/D.txt, an empty directory E    *)
(* before C in B, and a symbolic link L after B in A that points at B.     *)
(***************************************************************************)
Nodes == {"A", "B", "C", "D.txt", "E", "L"}
Root == "A"

Kind(n) ==
    CASE n \in {"A", "B", "C", "E"} -> "dir"
      [] n = "L" -> "link"
      [] OTHER -> "file"

LinkTarget(n) == IF n = "L" THEN "B" ELSE n

\* What successive readdir calls on the directory return, in the stream's order.
Stream(n) ==
    CASE n = "A" -> <<Dot, "B", DotDot, "L">>
      [] n = "B" -> <<Dot, DotDot, "E", "C">>
      [] n = "C" -> <<"D.txt", Dot, DotDot>>
      [] n = "E" -> <<DotDot, Dot>>
      [] OTHER -> <<>>

ModeOf(k) ==
    CASE k = "dir" -> S_IFDIR + 493
      [] k = "link" -> S_IFLNK + 511
      [] OTHER -> S_IFREG + 420

(***************************************************************************)
(* The operating system's handles.  M is the record of fdtab, ofds, ebadf, *)
(* fdobj and dirobj; every operator below maps M to the M after the call.  *)
(***************************************************************************)
FreeOfd == [node |-> "", pos |-> 0, broken |-> FALSE]

Mem == [fdtab |-> fdtab, ofds |-> ofds, ebadf |-> ebadf,
        fdobj |-> fdobj, dirobj |-> dirobj]

Store(M) ==
    /\ fdtab' = M.fdtab
    /\ ofds' = M.ofds
    /\ ebadf' = M.ebadf
    /\ fdobj' = M.fdobj
    /\ dirobj' = M.dirobj

IsOpen(M, fd) == fd \in FdRange /\ M.fdtab[fd] # 0

FreeFds(M) == {fd \in FdRange : M.fdtab[fd] = 0}

FreeOfds(M) == {k \in FdRange : M.ofds[k] = FreeOfd}

\* ::close(fd) and ::closedir(dir): the description goes with its last descriptor.
SysClose(M, fd) ==
    IF ~IsOpen(M, fd)
    THEN [M EXCEPT !.ebadf = TRUE]
    ELSE LET k == M.fdtab[fd]
             shared == \E g \in FdRange : g # fd /\ M.fdtab[g] = k
         IN  [M EXCEPT !.fdtab[fd] = 0,
                       !.ofds[k] = IF shared THEN @ ELSE FreeOfd]

\* ::openat(at, name, O_RDONLY | O_DIRECTORY) that succeeded: the lowest free fd.
SysOpen(M, n) ==
    LET fd == Min(FreeFds(M))
        k == Min(FreeOfds(M))
    IN  [m |-> [M EXCEPT !.fdtab[fd] = k,
                         !.ofds[k] = [node |-> n, pos |-> 1, broken |-> FALSE]],
         fd |-> fd]

\* ::dup(fd): a new descriptor of the same open file description, or -1.
SysDup(M, fd, ok) ==
    IF ok /\ IsOpen(M, fd) /\ FreeFds(M) # {}
    THEN LET g == Min(FreeFds(M))
         IN  [m |-> [M EXCEPT !.fdtab[g] = M.fdtab[fd]], fd |-> g]
    ELSE [m |-> M, fd |-> -1]

(***************************************************************************)
(* fd_t and dir_t.  An object slot with rc = 0 is not a live object.       *)
(***************************************************************************)
NoFdObj == [fd |-> -1, rc |-> 0]
NoDirObj == [dir |-> 0, rc |-> 0]

\* A close() that leaves the closed descriptor in the object.
fd_close_keeps_fd(M, o) ==
    LET fd == M.fdobj[o].fd
    IN  IF fd # -1 /\ fd # AT_FDCWD THEN SysClose(M, fd) ELSE M

fd_close(M, o) ==
    LET fd == M.fdobj[o].fd
    IN  IF fd # -1 /\ fd # AT_FDCWD
        THEN SysClose([M EXCEPT !.fdobj[o].fd = -1], fd)
        ELSE M

dir_close(M, o) ==
    LET d == M.dirobj[o].dir
    IN  IF d # 0
        THEN SysClose([M EXCEPT !.dirobj[o].dir = 0], d)
        ELSE M

fd_destroy(M, o) == [fd_close(M, o) EXCEPT !.fdobj[o] = NoFdObj]

dir_destroy(M, o) == [dir_close(M, o) EXCEPT !.dirobj[o] = NoDirObj]

fd_move_assign(M, dst, src) ==
    LET M1 == fd_close(M, dst)
        v == M1.fdobj[src].fd
        M2 == [M1 EXCEPT !.fdobj[src].fd = -1]
    IN  [M2 EXCEPT !.fdobj[dst].fd = v]

dir_move_assign(M, dst, src) ==
    LET M1 == dir_close(M, dst)
        v == M1.dirobj[src].dir
        M2 == [M1 EXCEPT !.dirobj[src].dir = 0]
    IN  [M2 EXCEPT !.dirobj[dst].dir = v]

fd_move_construct(M, dst, src) ==
    LET v == M.fdobj[src].fd
        M1 == [M EXCEPT !.fdobj[src].fd = -1]
    IN  [M1 EXCEPT !.fdobj[dst] = [fd |-> v, rc |-> 1]]

dir_move_construct(M, dst, src) ==
    LET v == M.dirobj[src].dir
        M1 == [M EXCEPT !.dirobj[src].dir = 0]
    IN  [M1 EXCEPT !.dirobj[dst] = [dir |-> v, rc |-> 1]]

(***************************************************************************)
(* std::shared_ptr<fd_t> and std::shared_ptr<dir_t>: 0 is the null         *)
(* pointer, rc the use count; the object is destroyed with its last owner. *)
(***************************************************************************)
MakeSharedFd(M, raw) ==
    LET o == Min({i \in ObjRange : M.fdobj[i].rc = 0})
    IN  [m |-> [M EXCEPT !.fdobj[o] = [fd |-> raw, rc |-> 1]], id |-> o]

MakeSharedDir(M, d) ==
    LET o == Min({i \in ObjRange : M.dirobj[i].rc = 0})
    IN  [m |-> [M EXCEPT !.dirobj[o] = [dir |-> d, rc |-> 1]], id |-> o]

AcquireFd(M, o) == IF o = 0 THEN M ELSE [M EXCEPT !.fdobj[o].rc = @ + 1]

AcquireDir(M, o) == IF o = 0 THEN M ELSE [M EXCEPT !.dirobj[o].rc = @ + 1]

ReleaseFd(M, o) ==
    IF o = 0 THEN M
    ELSE IF M.fdobj[o].rc > 1 THEN [M EXCEPT !.fdobj[o].rc = @ - 1]
    ELSE fd_destroy(M, o)

ReleaseDir(M, o) ==
    IF o = 0 THEN M
    ELSE IF M.dirobj[o].rc > 1 THEN [M EXCEPT !.dirobj[o].rc = @ - 1]
    ELSE dir_destroy(M, o)

(***************************************************************************)
(* file_t: the Entry.                                                      *)
(***************************************************************************)
RECURSIVE BitAnd(_, _)
BitAnd(a, b) ==
    IF a = 0 \/ b = 0 THEN 0
    ELSE (a % 2) * (b % 2) + 2 * BitAnd(a \div 2, b \div 2)

S_ISDIR(mode) == BitAnd(mode, S_IFMT) = S_IFDIR

\* ::fstatat(fd, name, &st, flags): fails on a bad descriptor or when the
\* environment makes it fail; a symbolic link is looked at itself under
\* AT_SYMLINK_NOFOLLOW.
fstatat(M, fd, name, nofollow, fail) ==
    IF fail \/ ~(fd = AT_FDCWD \/ IsOpen(M, fd))
    THEN [ok |-> FALSE, mode |-> 0]
    ELSE [ok |-> TRUE,
          mode |-> ModeOf(Kind(IF nofollow THEN name ELSE LinkTarget(name)))]

\* A constructor whose stat follows symbolic links.
file_t_follows_links(M, at, name, fail) ==
    LET st == fstatat(M, M.fdobj[at].fd, name, FALSE, fail)
    IN  [at |-> at, name |-> name,
         mode |-> IF st.ok THEN st.mode ELSE 0,
         err_ |-> IF st.ok THEN NoErr ELSE "fstatat"]

\* A constructor without the fstatat.
file_t_skips_stat(M, at, name, fail) ==
    [at |-> at, name |-> name, mode |-> 0, err_ |-> NoErr]

file_t(M, at, name, fail) ==
    LET st == fstatat(M, M.fdobj[at].fd, name, TRUE, fail)
    IN  [at |-> at, name |-> name,
         mode |-> IF st.ok THEN st.mode ELSE 0,
         err_ |-> IF st.ok THEN NoErr ELSE "fstatat"]

is_dir(f) == f.err_ = NoErr /\ S_ISDIR(f.mode)

\* An open_as_dir that returns the fdopendir error without ::close(fd).
open_as_dir_keeps_fd(M, at, name, how) ==
    IF \/ how = "openat"
       \/ ~(at = AT_FDCWD \/ IsOpen(M, at))
       \/ Kind(LinkTarget(name)) # "dir"
       \/ FreeFds(M) = {}
    THEN [m |-> M, dir |-> 0, error |-> "openat"]
    ELSE LET op == SysOpen(M, LinkTarget(name))
         IN  IF how = "fdopendir"
             THEN [m |-> op.m, dir |-> 0, error |-> "fdopendir"]
             ELSE LET sh == MakeSharedDir(op.m, op.fd)
                  IN  [m |-> sh.m, dir |-> sh.id, error |-> NoErr]

\* open_as_dir: a directory_t of a stream or of an error.  how is what the
\* environment does to it: "ok", "openat" or "fdopendir".
open_as_dir(M, at, name, how) ==
    IF \/ how = "openat"
       \/ ~(at = AT_FDCWD \/ IsOpen(M, at))
       \/ Kind(LinkTarget(name)) # "dir"
       \/ FreeFds(M) = {}
    THEN [m |-> M, dir |-> 0, error |-> "openat"]
    ELSE LET op == SysOpen(M, LinkTarget(name))
         IN  IF how = "fdopendir"
             THEN [m |-> SysClose(op.m, op.fd), dir |-> 0, error |-> "fdopendir"]
             ELSE LET sh == MakeSharedDir(op.m, op.fd)
                  IN  [m |-> sh.m, dir |-> sh.id, error |-> NoErr]

(***************************************************************************)
(* iter_t.                                                                 *)
(***************************************************************************)
EndIter == [at |-> 0, dir |-> 0, derr |-> NoErr, d_name |-> NullOpt, err_ |-> NoErr]

iter_error(it) == it.derr

iter_eq(a, b) == a.d_name = b.d_name

\* One ::readdir(dir): the next raw entry, or NULL ("nullopt") with errno
\* set (failed) or clear.  A failed read leaves the position where it was.
ReadDir(M, d, fail) ==
    LET k == M.fdtab[d]
        o == M.ofds[k]
    IN  IF fail \/ o.broken
        THEN [m |-> [M EXCEPT !.ofds[k].broken = persist],
              entry |-> NullOpt, failed |-> TRUE]
        ELSE IF o.pos > Len(Stream(o.node))
        THEN [m |-> M, entry |-> NullOpt, failed |-> FALSE]
        ELSE [m |-> [M EXCEPT !.ofds[k].pos = @ + 1],
              entry |-> Stream(o.node)[o.pos], failed |-> FALSE]

\* A do-while that skips "." alone.
RECURSIVE ReadLoopKeepsDotDot(_, _, _)
ReadLoopKeepsDotDot(M, d, failAt) ==
    LET r == ReadDir(M, d, failAt = 1)
    IN  IF r.entry = Dot
        THEN ReadLoopKeepsDotDot(r.m, d, IF failAt > 0 THEN failAt - 1 ELSE 0)
        ELSE r

\* The do-while of operator++; the failAt-th readdir of it fails (0: none).
RECURSIVE ReadLoop(_, _, _)
ReadLoop(M, d, failAt) ==
    LET r == ReadDir(M, d, failAt = 1)
    IN  IF r.entry \in {Dot, DotDot}
        THEN ReadLoop(r.m, d, IF failAt > 0 THEN failAt - 1 ELSE 0)
        ELSE r

\* operator++: the iterator after it, whether it threw, whether readdir failed.
Advance(M, it, failAt) ==
    IF it.dir = 0
    THEN [m |-> M, it |-> it, threw |-> TRUE, failed |-> FALSE]
    ELSE LET r == ReadLoop(M, M.dirobj[it.dir].dir, failAt)
         IN  IF r.failed
             THEN [m |-> r.m, it |-> [it EXCEPT !.err_ = "readdir"],
                   threw |-> FALSE, failed |-> TRUE]
             ELSE [m |-> r.m, it |-> [it EXCEPT !.d_name = r.entry],
                   threw |-> FALSE, failed |-> FALSE]

\* A constructor that advances whatever the open result carries.
iter_ctor_always_advances(M, at, dir, failAt) ==
    LET it0 == [at |-> at, dir |-> dir.dir, derr |-> dir.error,
                d_name |-> NullOpt, err_ |-> dir.error]
    IN  Advance(AcquireFd(M, at), it0, failAt)

\* A constructor with the test inverted: it advances when the open failed.
iter_ctor_advances_on_error(M, at, dir, failAt) ==
    LET it0 == [at |-> at, dir |-> dir.dir, derr |-> dir.error,
                d_name |-> NullOpt, err_ |-> dir.error]
        M1 == AcquireFd(M, at)
    IN  IF it0.err_ # NoErr
        THEN Advance(M1, it0, failAt)
        ELSE [m |-> M1, it |-> it0, threw |-> FALSE, failed |-> FALSE]

\* iter_t(at_, dir_): advances once unless the open result carries an error.
iter_ctor(M, at, dir, failAt) ==
    LET it0 == [at |-> at, dir |-> dir.dir, derr |-> dir.error,
                d_name |-> NullOpt, err_ |-> dir.error]
        M1 == AcquireFd(M, at)
    IN  IF it0.err_ = NoErr
        THEN Advance(M1, it0, failAt)
        ELSE [m |-> M1, it |-> it0, threw |-> FALSE, failed |-> FALSE]

\* A begin() without the is_dir() test.
begin_always_opens(M, f, how, failAt) ==
    LET d == open_as_dir(M, M.fdobj[f.at].fd, f.name, how)
        c == iter_ctor(d.m, f.at, d, failAt)
    IN  [m |-> c.m, it |-> c.it, threw |-> c.threw, failed |-> c.failed,
         opened |-> TRUE]

\* file_t::begin.
begin(M, f, how, failAt) ==
    IF ~is_dir(f)
    THEN [m |-> M, it |-> EndIter, threw |-> FALSE, failed |-> FALSE,
          opened |-> FALSE]
    ELSE LET d == open_as_dir(M, M.fdobj[f.at].fd, f.name, how)
             c == iter_ctor(d.m, f.at, d, failAt)
         IN  [m |-> c.m, it |-> c.it, threw |-> c.threw, failed |-> c.failed,
              opened |-> TRUE]

\* Copying and destroying an iterator: its two shared pointers.
CopyIter(M, it) == AcquireDir(AcquireFd(M, it.at), it.dir)

\* An iterator destructor that lets go of the base descriptor only.
DestroyIterKeepsStream(M, it) == ReleaseFd(M, it.at)

DestroyIter(M, it) == ReleaseDir(ReleaseFd(M, it.at), it.dir)

\* An operator* that reads the stream once more before it duplicates.
deref_reads_stream(M, it, dupOk, statFail) ==
    LET M0 == ReadDir(M, M.dirobj[it.dir].dir, FALSE).m
        du == SysDup(M0, M0.dirobj[it.dir].dir, dupOk)
        sh == MakeSharedFd(du.m, du.fd)
    IN  [m |-> sh.m, f |-> file_t(sh.m, sh.id, it.d_name, statFail)]

\* operator*: a duplicate of the stream's descriptor as the child's base.
deref(M, it, dupOk, statFail) ==
    LET du == SysDup(M, M.dirobj[it.dir].dir, dupOk)
        sh == MakeSharedFd(du.m, du.fd)
    IN  [m |-> sh.m, f |-> file_t(sh.m, sh.id, it.d_name, statFail)]

(***************************************************************************)
(* The output stream: the strings written, in order.  Only the first       *)
(* MaxOut strings are kept; the program never reads its output back.       *)
(***************************************************************************)
VBar == "|   "
Blank == "    "
Corner == "+-- "
Branch == "|-- "
Space == " "
NL == "\n"

ErrText(e) == "(error: " \o e \o ")"

Emit(o, toks) == IF Len(o) + Len(toks) <= MaxOut THEN o \o toks ELSE o

\* A display form that ends the line itself.
ShowFileEndsLine(f) ==
    <<f.name>> \o (IF f.err_ # NoErr THEN <<Space, ErrText(f.err_)>> ELSE <<>>)
               \o <<NL>>

\* operator<<(ostream, file_t)
ShowFile(f) ==
    <<f.name>> \o (IF f.err_ # NoErr THEN <<Space, ErrText(f.err_)>> ELSE <<>>)

\* print_rec, lines 246-250: the prefix, the branch glyph and the node.
\* A prefix of vertical bars whatever the flags.
PrefixAllBars(ls) == [i \in 1..Len(ls) |-> VBar]

Prefix(ls) == [i \in 1..Len(ls) |-> IF ls[i] THEN VBar ELSE Blank]

\* A glyph that ignores last.
GlyphBranchOnly(first, last) ==
    IF first THEN <<>> ELSE <<Branch>>

Glyph(first, last) ==
    IF first THEN <<>> ELSE IF last THEN <<Corner>> ELSE <<Branch>>

(***************************************************************************)
(* The frames of print_rec.  A frame holds the node (a file_t, or an err_t *)
(* for the synthetic child), the parameters first, last and depth, the     *)
(* locals it and next (end is always EndIter), tmp, the file_t temporary   *)
(* of the call it is waiting for, and pc.  The bottom frame is show().     *)
(* The other fields record what the frame has done: opened, whether        *)
(* begin() tried to open the node; openerr, the error of that open; mark,  *)
(* the length of out when the node's line began; yielded, the names it     *)
(* dereferenced; kids, the calls it made; rdfail, how many names its       *)
(* stream had given when readdir first failed (-1: never); reread, whether *)
(* readdir was called again after that; lines0, streams0 and dups0, the    *)
(* flags in lines, the number of open streams and the number of live       *)
(* duplicates when the call expression began.  yielded and kids keep their *)
(* first MaxKids elements.                                                 *)
(***************************************************************************)
NoFile == [at |-> 0, name |-> "", mode |-> 0, err_ |-> NoErr]

\* The dir_t objects that hold a stream, and the fd_t objects that hold a
\* descriptor of their own (a duplicate made by operator*).
OpenStreams == {o \in ObjRange : dirobj[o].rc > 0 /\ dirobj[o].dir # 0}

LiveDups == {o \in ObjRange : fdobj[o].rc > 0 /\ fdobj[o].fd \notin {-1, AT_FDCWD}}

Frame(kind, f, first, last, depth) ==
    [kind |-> kind, f |-> f, first |-> first, last |-> last, depth |-> depth,
     pc |-> "entry", it |-> EndIter, next |-> EndIter, tmp |-> 0,
     opened |-> FALSE, openerr |-> NoErr, mark |-> -1, lines0 |-> lines,
     streams0 |-> Cardinality(OpenStreams), dups0 |-> Cardinality(LiveDups),
     yielded |-> <<>>, kids |-> <<>>, rdfail |-> -1, reread |-> FALSE]

Rec(s, x) == IF Len(s) < MaxKids THEN Append(s, x) ELSE s

Top == stack[Len(stack)]

SetTop(fr) == [stack EXCEPT ![Len(stack)] = fr]

Pop == SubSeq(stack, 1, Len(stack) - 1)

Walking == phase = "walk" /\ Len(stack) > 1

\* print_rec, line 252: if (!first) lines.push_back(!last).
push_back(ls, first, last) == IF first THEN ls ELSE Append(ls, ~last)

\* A return that leaves the flag on the stack.
pop_back_skipped(ls, first) == ls

\* print_rec, line 276: if (!first) lines.pop_back().
pop_back(ls, first) == IF first THEN ls ELSE SubSeq(ls, 1, Len(ls) - 1)

\* How many environment failures a step injected.
Cost(b) == IF b THEN 1 ELSE 0

\* A main without line 318.
MainDepthNoIncrement(d) == d

\* main, line 318: the depth handed to print.
MainDepth(d) == IF d # -1 THEN d + 1 ELSE d

\* The readdir calls one operator++ can make on the stream of directory n.
FailChoices(n) == 0..(Len(Stream(n)) + 1)

\* main's show(path): the root Entry over AT_FDCWD, then print.
Show ==
    /\ tick' = ~tick
    /\ phase = "start"
    /\ \E statFail \in BOOLEAN :
          LET sh == MakeSharedFd(Mem, AT_FDCWD)
              f == file_t(sh.m, sh.id, Root, statFail)
          IN  /\ Cost(statFail) <= faults
              /\ faults' = faults - Cost(statFail)
              /\ Store(sh.m)
              /\ stack' = << [Frame("show", NoFile, TRUE, TRUE, 0)
                                EXCEPT !.tmp = sh.id, !.pc = "after"],
                             Frame("file", f, TRUE, TRUE, MainDepth(depthArg)) >>
    /\ phase' = "walk"
    /\ UNCHANGED <<depthArg, lines, out, persist>>

\* print_rec, lines 242-252: the depth cut, then the node's line up to its
\* name, then the flag pushed for the node's children.
Enter ==
    /\ tick' = ~tick
    /\ Walking
    /\ Top.pc = "entry"
    /\ IF Top.depth = 0
       THEN /\ stack' = Pop
            /\ UNCHANGED <<lines, out>>
       ELSE LET d == (IF Top.depth = -1 THEN 0 ELSE Top.depth) - 1
                node == IF Top.kind = "file" THEN ShowFile(Top.f)
                        ELSE <<ErrText(Top.f.err_)>>
            IN  /\ out' = Emit(out, Prefix(lines) \o Glyph(Top.first, Top.last)
                                      \o node)
                /\ lines' = push_back(lines, Top.first, Top.last)
                /\ stack' = SetTop([Top EXCEPT
                                      !.depth = d,
                                      !.mark = Len(out),
                                      !.pc = IF Top.kind = "file" THEN "begin"
                                             ELSE "exit"])
    /\ UNCHANGED <<phase, depthArg, fdobj, dirobj, fdtab, ofds, ebadf, faults,
                   persist>>

\* print_rec, lines 256-258: it = node.begin().
Begin ==
    /\ tick' = ~tick
    /\ Walking
    /\ Top.pc = "begin"
    /\ \E how \in {"ok", "openat", "fdopendir"}, failAt \in FailChoices(Top.f.name) :
          LET b == begin(Mem, Top.f, how, failAt)
              openFail == b.it.derr = how
              cost == Cost(openFail) + Cost(b.failed)
          IN  /\ how = "ok" \/ openFail
              /\ failAt = 0 \/ b.failed
              /\ cost <= faults
              /\ faults' = faults - cost
              /\ Store(b.m)
              /\ IF b.threw
                 THEN /\ phase' = "thrown"
                      /\ UNCHANGED stack
                 ELSE /\ phase' = phase
                      /\ stack' = SetTop([Top EXCEPT
                                            !.it = b.it,
                                            !.opened = b.opened,
                                            !.openerr = b.it.derr,
                                            !.rdfail = IF b.failed THEN 0 ELSE @,
                                            !.pc = "errchk"])
    /\ UNCHANGED <<depthArg, lines, out, persist>>

\* print_rec, lines 260-263: an open error goes on the node's own line and
\* it becomes end; then the newline.
ErrChk ==
    /\ tick' = ~tick
    /\ Walking
    /\ Top.pc = "errchk"
    /\ IF iter_error(Top.it) # NoErr
       THEN /\ out' = Emit(out, <<Space, ErrText(iter_error(Top.it)), NL>>)
            /\ Store(DestroyIter(Mem, Top.it))
            /\ stack' = SetTop([Top EXCEPT !.it = EndIter, !.pc = "loop"])
       ELSE /\ out' = Emit(out, <<NL>>)
            /\ Store(Mem)
            /\ stack' = SetTop([Top EXCEPT !.pc = "loop"])
    /\ UNCHANGED <<phase, depthArg, lines, faults, persist>>

\* print_rec, lines 265-268 and 272-273: the loop test; next = it; ++next.
\* When the loop is over, the synthetic child of it.error(), if any.
Loop ==
    /\ tick' = ~tick
    /\ Walking
    /\ Top.pc = "loop"
    /\ IF ~iter_eq(Top.it, EndIter) /\ iter_error(Top.it) = NoErr
       THEN \E failAt \in FailChoices(Top.f.name) :
               LET M1 == CopyIter(DestroyIter(Mem, Top.next), Top.it)
                   a == Advance(M1, Top.it, failAt)
                   injected == a.failed /\ failAt # 0
               IN  /\ failAt = 0 \/ a.failed
                   /\ Cost(injected) <= faults
                   /\ faults' = faults - Cost(injected)
                   /\ Store(a.m)
                   /\ IF a.threw
                      THEN /\ phase' = "thrown"
                           /\ UNCHANGED stack
                      ELSE /\ phase' = phase
                           /\ stack' = SetTop([Top EXCEPT
                                  !.next = a.it,
                                  !.reread = @ \/ Top.rdfail # -1,
                                  !.rdfail = IF a.failed /\ @ = -1
                                             THEN Len(Top.yielded) + 1 ELSE @,
                                  !.pc = "deref"])
       ELSE /\ Store(Mem)
            /\ UNCHANGED <<phase, faults>>
            /\ IF iter_error(Top.it) # NoErr
               THEN LET e == [NoFile EXCEPT !.err_ = iter_error(Top.it)]
                        last == iter_eq(Top.next, EndIter)
                    IN  stack' = Append(
                            SetTop([Top EXCEPT
                                      !.kids = Rec(@, [name |-> ErrText(e.err_),
                                                       last |-> last]),
                                      !.pc = "exit"]),
                            Frame("err", e, FALSE, last, Top.depth))
               ELSE stack' = SetTop([Top EXCEPT !.pc = "exit"])
    /\ UNCHANGED <<depthArg, lines, out, persist>>

\* print_rec, line 269: print_rec(*it, lines, out, false, next == end, depth).
Deref ==
    /\ tick' = ~tick
    /\ Walking
    /\ Top.pc = "deref"
    /\ \E dupOk \in BOOLEAN, statFail \in BOOLEAN :
          LET d == deref(Mem, Top.it, dupOk, statFail)
              last == iter_eq(Top.next, EndIter)
              cost == Cost(~dupOk) + Cost(statFail)
          IN  /\ statFail => dupOk
              /\ cost <= faults
              /\ faults' = faults - cost
              /\ Store(d.m)
              /\ stack' = Append(
                     SetTop([Top EXCEPT
                               !.tmp = d.f.at,
                               !.yielded = Rec(@, d.f.name),
                               !.kids = Rec(@, [name |-> d.f.name, last |-> last]),
                               !.pc = "after"]),
                     Frame("file", d.f, FALSE, last, Top.depth))
    /\ UNCHANGED <<phase, depthArg, lines, out, persist>>

\* print_rec, lines 269 and 265: the call has returned; its file_t
\* temporary goes, and it = next.
After ==
    /\ tick' = ~tick
    /\ Walking
    /\ Top.pc = "after"
    /\ LET M1 == ReleaseFd(Mem, Top.tmp)
           M2 == DestroyIter(CopyIter(M1, Top.next), Top.it)
       IN  /\ Store(M2)
           /\ stack' = SetTop([Top EXCEPT !.tmp = 0, !.it = Top.next, !.pc = "loop"])
    /\ UNCHANGED <<phase, depthArg, lines, out, faults, persist>>

\* print_rec, lines 276-277: the flag popped, the locals destroyed, the return.
Exit ==
    /\ tick' = ~tick
    /\ Walking
    /\ Top.pc = "exit"
    /\ lines' = pop_back(lines, Top.first)
    /\ Store(DestroyIter(DestroyIter(Mem, Top.it), Top.next))
    /\ stack' = Pop
    /\ UNCHANGED <<phase, depthArg, out, faults, persist>>

\* show() returns: print is over and the root Entry is destroyed.
ShowReturn ==
    /\ tick' = ~tick
    /\ phase = "walk"
    /\ Len(stack) = 1
    /\ Store(ReleaseFd(Mem, Top.tmp))
    /\ stack' = <<>>
    /\ phase' = "done"
    /\ UNCHANGED <<depthArg, lines, out, faults, persist>>

(***************************************************************************)
(* The walk of one root.                                                   *)
(***************************************************************************)
InitHandles ==
    /\ fdobj = [o \in ObjRange |-> NoFdObj]
    /\ dirobj = [o \in ObjRange |-> NoDirObj]
    /\ fdtab = [fd \in FdRange |-> 0]
    /\ ofds = [k \in FdRange |-> FreeOfd]
    /\ ebadf = FALSE

Init ==
    /\ phase = "start"
    /\ depthArg \in {-1} \cup 0..MaxDepth
    /\ stack = <<>>
    /\ lines = <<>>
    /\ out = <<>>
    /\ InitHandles
    /\ faults = MaxFaults
    /\ persist = FALSE
    /\ tick = FALSE

Next ==
    \/ Show
    \/ Enter
    \/ Begin
    \/ ErrChk
    \/ Loop
    \/ Deref
    \/ After
    \/ Exit
    \/ ShowReturn

Spec == Init /\ [][Next]_vars

(***************************************************************************)
(* The same walk over a filesystem where a directory whose read has failed *)
(* goes on failing (an I/O error, a stale handle).  The program is one     *)
(* thread that runs until main returns: it always takes its next step.     *)
(* The fairness is stated on tick, which every step flips.                 *)
(***************************************************************************)
FairInit ==
    /\ phase = "start"
    /\ depthArg \in {-1} \cup 0..MaxDepth
    /\ stack = <<>>
    /\ lines = <<>>
    /\ out = <<>>
    /\ InitHandles
    /\ faults = MaxFaults
    /\ persist = TRUE
    /\ tick = FALSE

\* A step of the running program: every action of Next is one, and one is
\* possible as long as main has not returned.
Step ==
    /\ phase \in {"start", "walk"}
    /\ tick' = ~tick

FairSpec == FairInit /\ [][Next]_vars /\ WF_tick(Step)

(***************************************************************************)
(* fd_t and dir_t on their own: any sequence of constructions from a raw   *)
(* handle (one just obtained from the system, or a sentinel), moves,       *)
(* closes and destructions, over at most MaxWrap live objects of each.     *)
(***************************************************************************)
LiveFds == {o \in ObjRange : fdobj[o].rc > 0}

LiveDirs == {o \in ObjRange : dirobj[o].rc > 0}

HandlesIdle == UNCHANGED <<phase, depthArg, stack, lines, out, faults, persist, tick>>

\* fd_t(int fd_), line 60.
FdConstruct ==
    /\ phase = "handles"
    /\ Cardinality(LiveFds) < MaxWrap
    /\ \E raw \in {"fresh", "cwd", "invalid"} :
          LET op == SysOpen(Mem, Root)
              M == IF raw = "fresh" THEN op.m ELSE Mem
              fd == CASE raw = "fresh" -> op.fd
                      [] raw = "cwd" -> AT_FDCWD
                      [] OTHER -> -1
          IN  Store(MakeSharedFd(M, fd).m)
    /\ HandlesIdle

\* dir_t(DIR* dir_), line 88.
DirConstruct ==
    /\ phase = "handles"
    /\ Cardinality(LiveDirs) < MaxWrap
    /\ \E raw \in {"fresh", "null"} :
          LET op == SysOpen(Mem, Root)
              M == IF raw = "fresh" THEN op.m ELSE Mem
              d == IF raw = "fresh" THEN op.fd ELSE 0
          IN  Store(MakeSharedDir(M, d).m)
    /\ HandlesIdle

\* fd_t(fd_t&& o), lines 66-68.
FdMoveConstruct ==
    /\ phase = "handles"
    /\ Cardinality(LiveFds) < MaxWrap
    /\ \E src \in LiveFds :
          Store(fd_move_construct(Mem, Min(ObjRange \ LiveFds), src))
    /\ HandlesIdle

\* dir_t(dir_t&& other), lines 95-97.
DirMoveConstruct ==
    /\ phase = "handles"
    /\ Cardinality(LiveDirs) < MaxWrap
    /\ \E src \in LiveDirs :
          Store(dir_move_construct(Mem, Min(ObjRange \ LiveDirs), src))
    /\ HandlesIdle

\* fd_t::operator=(fd_t&& o), lines 70-75.
FdMoveAssign ==
    /\ phase = "handles"
    /\ \E dst \in LiveFds, src \in LiveFds : Store(fd_move_assign(Mem, dst, src))
    /\ HandlesIdle

\* dir_t::operator=(dir_t&& other), lines 99-104.
DirMoveAssign ==
    /\ phase = "handles"
    /\ \E dst \in LiveDirs, src \in LiveDirs : Store(dir_move_assign(Mem, dst, src))
    /\ HandlesIdle

\* fd_t::close, lines 77-81.
FdClose ==
    /\ phase = "handles"
    /\ \E o \in LiveFds : Store(fd_close(Mem, o))
    /\ HandlesIdle

\* dir_t::close, lines 106-109.
DirClose ==
    /\ phase = "handles"
    /\ \E o \in LiveDirs : Store(dir_close(Mem, o))
    /\ HandlesIdle

\* fd_t::~fd_t, line 61.
FdDestroy ==
    /\ phase = "handles"
    /\ \E o \in LiveFds : Store(fd_destroy(Mem, o))
    /\ HandlesIdle

\* dir_t::~dir_t, line 90.
DirDestroy ==
    /\ phase = "handles"
    /\ \E o \in LiveDirs : Store(dir_destroy(Mem, o))
    /\ HandlesIdle

HandleInit ==
    /\ phase = "handles"
    /\ depthArg = -1
    /\ stack = <<>>
    /\ lines = <<>>
    /\ out = <<>>
    /\ InitHandles
    /\ faults = 0
    /\ persist = FALSE
    /\ tick = FALSE

HandleNext ==
    \/ FdConstruct
    \/ DirConstruct
    \/ FdMoveConstruct
    \/ DirMoveConstruct
    \/ FdMoveAssign
    \/ DirMoveAssign
    \/ FdClose
    \/ DirClose
    \/ FdDestroy
    \/ DirDestroy

HandleSpec == HandleInit /\ [][HandleNext]_vars

(***************************************************************************)
(* What the properties below are stated with.                              *)
(***************************************************************************)
\* The print_rec frames (the bottom frame is show()).
Frames == {stack[i] : i \in 2..Len(stack)}

FileFrames == {fr \in Frames : fr.kind = "file"}

IsReal(e) == e \notin {Dot, DotDot}

\* The entries of a directory other than "." and "..", in the stream's order.
RealEntries(n) == SelectSeq(Stream(n), IsReal)

\* The text a frame's node has written since its line began.
Written(fr) == SubSeq(out, fr.mark + 1, Len(out))

Glyphs == {VBar, Blank, Corner, Branch}

Occurs(x, s) == \E i \in 1..Len(s) : s[i] = x

\* C1: when readdir fails after k >= 1 entries of a directory were read,
\* print_rec emits those k entries as ordinary children, then one synthetic
\* child of the readdir error drawn as a last child, and calls readdir on
\* that directory no more.
C1_ReadErrorChild ==
    \A fr \in FileFrames :
        fr.rdfail >= 1 =>
            /\ ~fr.reread
            /\ fr.pc = "exit" =>
                  /\ Len(fr.kids) = fr.rdfail + 1
                  /\ \A i \in 1..fr.rdfail :
                        fr.kids[i].name = RealEntries(fr.f.name)[i]
                  /\ fr.kids[fr.rdfail + 1] =
                        [name |-> ErrText("readdir"), last |-> TRUE]

\* The stream an iterator reads has no entry left.
Drained(it) ==
    /\ it.dir # 0
    /\ LET o == ofds[fdtab[dirobj[it.dir].dir]]
       IN  o.pos > Len(Stream(o.node))

\* C2: an iterator on which readdir failed has no current name and equals
\* the end iterator; an iterator has no current name only if it failed or
\* is exhausted.
C2_FailedIterIsEnd ==
    \A fr \in FileFrames : \A it \in {fr.it, fr.next} :
        /\ it.err_ = "readdir" => it.d_name = NullOpt /\ iter_eq(it, EndIter)
        /\ it.d_name = NullOpt => it.err_ # NoErr \/ it = EndIter \/ Drained(it)

\* A frame whose directory opened and has read without error so far.
ReadsCleanly(fr) == fr.opened /\ fr.openerr = NoErr /\ fr.rdfail = -1

\* C3: consuming begin() up to end() over a directory that opens and reads
\* without error yields its entries other than "." and "..", each once, in
\* the stream's order; an empty directory yields nothing and has no error.
C3_IterationYields ==
    \A fr \in FileFrames :
        ReadsCleanly(fr) =>
            LET real == RealEntries(fr.f.name)
            IN  /\ Len(fr.yielded) <= Len(real)
                /\ fr.yielded = SubSeq(real, 1, Len(fr.yielded))
                /\ ~Occurs(Dot, fr.yielded) /\ ~Occurs(DotDot, fr.yielded)
                /\ fr.pc = "exit" => fr.yielded = real
                /\ (real = <<>> /\ fr.pc \in {"errchk", "loop", "exit"}) =>
                      /\ iter_eq(fr.it, EndIter)
                      /\ iter_error(fr.it) = NoErr
                      /\ fr.yielded = <<>>

C3_Witness ==
    \E fr \in FileFrames :
        /\ ReadsCleanly(fr)
        /\ fr.pc = "exit"
        /\ fr.f.name = "B"
        /\ fr.yielded = <<"E", "C">>
        /\ Occurs(Dot, Stream("B")) /\ Occurs(DotDot, Stream("B"))

\* The names among the strings written, in order.
IsName(x) == x \in Nodes

Printed == SelectSeq(out, IsName)

\* The levels of the tree below n in preorder, cut d levels down (-1: not cut).
RECURSIVE Subtree(_, _)
RECURSIVE Forest(_, _)
Subtree(n, d) ==
    <<n>> \o (IF Kind(n) = "dir" /\ d # 0
              THEN Forest(RealEntries(n), IF d = -1 THEN -1 ELSE d - 1)
              ELSE <<>>)

Forest(ns, d) ==
    IF ns = <<>> THEN <<>> ELSE Subtree(Head(ns), d) \o Forest(Tail(ns), d)

\* The number of levels between the root and n.
RECURSIVE Level(_)
Level(n) ==
    IF n = Root THEN 0
    ELSE LET p == CHOOSE q \in Nodes : Occurs(n, Stream(q)) IN 1 + Level(p)

\* C4: with the user's depth limit d >= 0 the root and the entries at most d
\* levels below it are printed, and nothing deeper; d = 0 prints the root's
\* line alone; with no limit every level is printed.
C4_DepthLimit ==
    /\ depthArg >= 0 => \A i \in 1..Len(Printed) : Level(Printed[i]) <= depthArg
    /\ phase = "done" =>
          /\ depthArg = 0 => Printed = <<Root>>
          /\ faults = MaxFaults => Printed = Subtree(Root, depthArg)

C4_Witness ==
    /\ phase = "done"
    /\ faults = MaxFaults
    /\ depthArg = 1
    /\ Printed = <<"A", "B", "L">>

\* C5: when opening a directory fails, the iterator built from the failed
\* open is not advanced (its constructor does not throw, it has no stream
\* and no name), the error follows the node's name on the same line, then
\* the newline, and the node gets no children.
C5_OpenError ==
    /\ phase # "thrown"
    /\ \A fr \in FileFrames :
          fr.openerr # NoErr =>
              /\ fr.rdfail = -1 /\ fr.yielded = <<>> /\ fr.kids = <<>>
              /\ fr.pc = "errchk" =>
                    /\ fr.it.dir = 0
                    /\ fr.it.d_name = NullOpt
                    /\ iter_error(fr.it) = fr.openerr
              /\ fr.pc \in {"loop", "exit"} =>
                    /\ fr.it = EndIter
                    /\ LET w == Written(fr)
                           k == Len(w)
                       IN  /\ k >= 4
                           /\ SubSeq(w, k - 3, k) =
                                 <<fr.f.name, Space, ErrText(fr.openerr), NL>>
                           /\ \A i \in 1..(k - 4) : w[i] \in Glyphs

C5_Witness ==
    \E fr \in FileFrames :
        /\ fr.openerr = "openat"
        /\ fr.pc = "exit"
        /\ fr.f.name = "B"
        /\ Written(fr) = <<Branch, "B", Space, ErrText("openat"), NL>>
        /\ fr.it = EndIter /\ fr.kids = <<>>

\* Whether the line a frame's node wrote carries e right after its name.
Inline(fr, e) ==
    LET w == Written(fr)
    IN  \E j \in 1..(Len(w) - 2) :
           /\ \A i \in 1..(j - 1) : w[i] \in Glyphs
           /\ w[j] = fr.f.name
           /\ w[j + 1] = Space
           /\ w[j + 2] = ErrText(e)

\* C7: every stat, open or readdir failure on a printed node appears in the
\* output as an (error: ...) annotation of that node: after the name for a
\* stat or open failure, as a child line for a readdir failure, the failure
\* of a directory's first read included.
C7_ErrorsShown ==
    \A fr \in FileFrames :
        /\ (fr.f.err_ # NoErr /\ fr.pc # "entry") => Inline(fr, fr.f.err_)
        /\ (fr.openerr # NoErr /\ fr.pc \in {"loop", "exit"}) =>
              Inline(fr, fr.openerr)
        /\ (fr.rdfail # -1 /\ fr.pc = "exit") =>
              Occurs(ErrText("readdir"), Written(fr))

\* C8: an Entry is a directory exactly when its stat succeeded and the type
\* that stat found, the link itself for a symbolic link, is directory; an
\* Entry with a stat error or of a symbolic link is never opened or listed.
C8_IsDir ==
    \A fr \in FileFrames :
        /\ is_dir(fr.f) <=> (fr.f.err_ = NoErr /\ Kind(fr.f.name) = "dir")
        /\ (fr.f.err_ # NoErr \/ Kind(fr.f.name) = "link") =>
              /\ ~is_dir(fr.f)
              /\ ~fr.opened
              /\ fr.it.dir = 0 /\ fr.next.dir = 0
              /\ fr.yielded = <<>>

C8_Witness ==
    /\ Walking
    /\ Top.f.name = "L"
    /\ Kind(LinkTarget("L")) = "dir"
    /\ Top.f.err_ = NoErr
    /\ Top.pc = "exit"
    /\ ~is_dir(Top.f)
    /\ Occurs(ErrText("fstatat"), out)

\* The step that runs begin() on the Entry of the top frame.
BeginsNonDir ==
    /\ Walking
    /\ Top.pc = "begin"
    /\ ~is_dir(Top.f)

\* C9: begin() on an Entry that is not a directory opens nothing and
\* returns an iterator equal to end(); consuming it is zero iterations and
\* zero readdir calls.
C9_NonDirBegin ==
    /\ [](\A fr \in FileFrames :
             ~is_dir(fr.f) =>
                /\ fr.yielded = <<>> /\ fr.kids = <<>>
                /\ fr.rdfail = -1 /\ ~fr.reread
                /\ fr.it.dir = 0 /\ fr.next.dir = 0)
    /\ [][BeginsNonDir =>
            /\ <<fdtab, ofds, fdobj, dirobj, ebadf>>' =
                  <<fdtab, ofds, fdobj, dirobj, ebadf>>
            /\ phase' = "walk"
            /\ Len(stack') = Len(stack)
            /\ stack'[Len(stack')].it = EndIter
            /\ iter_eq(stack'[Len(stack')].it, EndIter)]_vars

C9_Witness ==
    /\ Walking
    /\ Top.f.name = "D.txt"
    /\ ~is_dir(Top.f)
    /\ Top.pc = "errchk"
    /\ Top.it = EndIter
    /\ \A fd \in FdRange : fdtab[fd] # 0 => ofds[fdtab[fd]].node # "D.txt"

\* A frame whose node met a stat, open or readdir failure.
Failed(fr) == fr.f.err_ # NoErr \/ fr.openerr # NoErr \/ fr.rdfail # -1

\* The entries that follow the node of frame i in its parent's directory.
LaterSiblings(i) ==
    LET sibs == RealEntries(stack[i - 1].f.name)
    IN  {sibs[k] : k \in {k \in 1..Len(sibs) :
                            \E j \in 1..(k - 1) : sibs[j] = stack[i].f.name}}

\* The later siblings of a printed node that met a failure, and of each of
\* its ancestors.
Owed ==
    UNION {LaterSiblings(i) :
             i \in {i \in 3..Len(stack) :
                      /\ stack[i].kind = "file"
                      /\ stack[i].pc # "entry"
                      /\ \E j \in i..Len(stack) :
                            /\ stack[j].kind = "file"
                            /\ stack[j].pc # "entry"
                            /\ Failed(stack[j])}}

\* The nodes that have an earlier sibling in their directory.
NotFirst ==
    {n \in Nodes : \E d \in Nodes :
        \E k \in 2..Len(RealEntries(d)) : RealEntries(d)[k] = n}

\* The node's line has just been written.
Rendered(n) ==
    /\ Walking
    /\ Top.kind = "file"
    /\ Top.f.name = n
    /\ Top.pc = "begin"

\* C6: a stat, open or readdir failure on an entry never aborts the walk:
\* nothing is thrown, and every later sibling of the entry and of each of
\* its ancestors is still rendered.
C6_WalkContinues ==
    /\ [](phase # "thrown")
    /\ \A n \in NotFirst : (n \in Owed) ~> Rendered(n)

\* The handles the live wrappers hold, sentinels aside.
HeldBy(o) == IF fdobj[o].fd \in {-1, AT_FDCWD} THEN {} ELSE {fdobj[o].fd}

HeldByDir(o) == IF dirobj[o].dir = 0 THEN {} ELSE {dirobj[o].dir}

Held == UNION ({HeldBy(o) : o \in LiveFds} \cup {HeldByDir(o) : o \in LiveDirs})

\* C10: over any sequence of construct, move-construct, move-assign, close
\* and destroy of fd_t and dir_t, no handle is released twice and no
\* sentinel (-1, null, AT_FDCWD) is handed to the system's close; every
\* handle a wrapper holds is open and held by that wrapper alone; every
\* open handle is held (none leaks); close on a closed or moved-from
\* wrapper changes nothing.
C10_HandlesOnce ==
    phase = "handles" =>
        /\ ~ebadf
        /\ \A fd \in Held : IsOpen(Mem, fd)
        /\ \A o, q \in LiveFds : o # q => HeldBy(o) \cap HeldBy(q) = {}
        /\ \A o, q \in LiveDirs : o # q => HeldByDir(o) \cap HeldByDir(q) = {}
        /\ \A o \in LiveFds, q \in LiveDirs : HeldBy(o) \cap HeldByDir(q) = {}
        /\ \A fd \in FdRange : IsOpen(Mem, fd) => fd \in Held
        /\ \A o \in LiveFds : HeldBy(o) = {} => fd_close(Mem, o) = Mem
        /\ \A o \in LiveDirs : HeldByDir(o) = {} => dir_close(Mem, o) = Mem
        /\ \A o \in LiveFds : fd_close(fd_close(Mem, o), o) = fd_close(Mem, o)
        /\ \A o \in LiveDirs : dir_close(dir_close(Mem, o), o) = dir_close(Mem, o)

C10_Witness ==
    /\ phase = "handles"
    /\ fdtab[3] = 0
    /\ IsOpen(Mem, 4)
    /\ \E o \in LiveFds : fdobj[o].fd = -1
    /\ \E o \in LiveFds : fdobj[o].fd = AT_FDCWD
    /\ \E o \in LiveDirs : dirobj[o].dir = 4
    /\ \E o \in LiveDirs : dirobj[o].dir = 0

\* Every handle an object holds is open, no two objects hold the same
\* handle, and every open handle is held by an object.
EachHandleOwnedOnce ==
    /\ \A fd \in Held : IsOpen(Mem, fd)
    /\ \A o, q \in LiveFds : o # q => HeldBy(o) \cap HeldBy(q) = {}
    /\ \A o, q \in LiveDirs : o # q => HeldByDir(o) \cap HeldByDir(q) = {}
    /\ \A o \in LiveFds, q \in LiveDirs : HeldBy(o) \cap HeldByDir(q) = {}
    /\ \A fd \in FdRange : IsOpen(Mem, fd) => fd \in Held

\* C11: when print has returned for a root, every directory stream opened
\* and every descriptor duplicated during the walk has been closed, once:
\* the system's close never got a handle that was not open, during the walk
\* every open handle has one owner, and at the return none is open and no
\* fd_t or dir_t object is left.
C11_WalkReleasesHandles ==
    phase # "handles" =>
        /\ ~ebadf
        /\ EachHandleOwnedOnce
        /\ phase = "done" =>
              /\ \A fd \in FdRange : fdtab[fd] = 0 /\ ofds[fd] = FreeOfd
              /\ LiveFds = {} /\ LiveDirs = {}

C11_Witness ==
    /\ phase = "done"
    /\ Occurs("D.txt", out)
    /\ Occurs(ErrText("fdopendir"), out)
    /\ \A fd \in FdRange : fdtab[fd] = 0

\* C12: for any pattern of stat, open and readdir failures, rendering a
\* root eventually terminates: print returns, after finitely many readdir
\* calls.
C12_Terminates == <>(phase = "done")

\* The glyph on the line of the node of frame i: what was written after the
\* continuation glyphs of its i - 3 ancestors below the root.
GlyphOf(i) == out[stack[i].mark + (i - 3) + 1]

\* C13: among the children print_rec emits for a directory that reads
\* without error, the final child and no other is drawn with the corner
\* glyph (last = true), every earlier one with the branch glyph; a child's
\* flag is true exactly when advancing the stream past it reached the end.
C13_LastChildCorner ==
    /\ \A i \in 3..Len(stack) :
          LET fr == stack[i]
              par == stack[i - 1]
              real == RealEntries(par.f.name)
              final == fr.f.name = real[Len(real)]
          IN  (fr.kind = "file" /\ ReadsCleanly(par)) =>
                 /\ fr.last <=> final
                 /\ fr.last <=> iter_eq(par.next, EndIter)
                 /\ fr.last <=> par.next.d_name = NullOpt
                 /\ fr.pc # "entry" =>
                       GlyphOf(i) = IF final THEN Corner ELSE Branch
    /\ \A fr \in FileFrames :
          ReadsCleanly(fr) =>
             LET real == RealEntries(fr.f.name)
             IN  /\ \A k \in 1..Len(fr.kids) :
                       /\ fr.kids[k].name = real[k]
                       /\ fr.kids[k].last <=> k = Len(real)
                 /\ fr.pc = "exit" => Len(fr.kids) = Len(real)

C13_Witness ==
    /\ Walking
    /\ Len(stack) = 4
    /\ Top.f.name = "C"
    /\ Top.pc = "exit"
    /\ Top.last
    /\ ReadsCleanly(stack[3])
    /\ GlyphOf(4) = Corner
    /\ stack[3].kids = <<[name |-> "E", last |-> FALSE], [name |-> "C", last |-> TRUE]>>
    /\ Occurs(Branch, out)

\* C14: the line of a node k >= 1 levels below the root starts with k - 1
\* continuation glyphs, one per ancestor below the root from the shallowest:
\* the vertical bar for an ancestor that was not the last sibling, the
\* blank for one that was; then the branch glyph and the name.  The root's
\* line starts with its name.
C14_PrefixGlyphs ==
    \A i \in 2..Len(stack) :
        LET fr == stack[i]
        IN  (fr.kind = "file" /\ fr.pc # "entry") =>
               /\ Level(fr.f.name) = i - 2
               /\ i = 2 => out[fr.mark + 1] = Root
               /\ i > 2 =>
                     /\ \A j \in 1..(i - 3) :
                           LET anc == stack[j + 2]
                               real == RealEntries(stack[j + 1].f.name)
                           IN  /\ out[fr.mark + j] = IF anc.last THEN Blank ELSE VBar
                               /\ ReadsCleanly(stack[j + 1]) =>
                                     (out[fr.mark + j] = Blank
                                         <=> anc.f.name = real[Len(real)])
                     /\ out[fr.mark + i - 2] \in {Corner, Branch}
                     /\ out[fr.mark + i - 1] = fr.f.name

C14_Witness ==
    /\ Walking
    /\ Len(stack) = 5
    /\ Top.f.name = "D.txt"
    /\ Top.pc = "exit"
    /\ Written(Top) = <<VBar, Blank, Corner, "D.txt", NL>>

\* The iterator has a stream, and the stream is open.
HasStream(it) ==
    /\ it.dir # 0
    /\ dirobj[it.dir].rc > 0
    /\ IsOpen(Mem, dirobj[it.dir].dir)

\* C15: operator++ throws on an iterator without a stream, and never does
\* during a walk: the iterator built from a failed open is not advanced,
\* the one built from a successful open has a stream, and an iterator
\* whose d_name is present, the only kind the loop advances a copy of, has
\* a stream.
C15_NoAdvanceWithoutStream ==
    /\ phase # "thrown"
    /\ Advance(Mem, EndIter, 0).threw
    /\ \A fr \in FileFrames :
          /\ \A it \in {fr.it, fr.next} :
                /\ Advance(Mem, it, 0).threw <=> it.dir = 0
                /\ it.d_name # NullOpt => HasStream(it)
                /\ it.dir # 0 => HasStream(it)
          /\ fr.pc = "errchk" =>
                /\ (fr.opened /\ fr.openerr = NoErr) => HasStream(fr.it)
                /\ fr.openerr # NoErr =>
                      /\ fr.it.dir = 0
                      /\ fr.it.d_name = NullOpt
                      /\ fr.it.err_ = fr.openerr
          /\ fr.pc = "deref" => HasStream(fr.it) /\ HasStream(fr.next)

C15_Witness ==
    /\ Walking
    /\ Len(stack) = 3
    /\ Top.f.name = "B"
    /\ Top.pc = "errchk"
    /\ Top.openerr = "openat"
    /\ Advance(Mem, Top.it, 0).threw
    /\ stack[2].next.d_name = "L"
    /\ HasStream(stack[2].next)

\* The stream of the frame at index i of this stack, and its read position.
FrameDir(st, i) == IF st[i].it.dir # 0 THEN st[i].it.dir ELSE st[i].next.dir

PosOf(st, dobj, tab, ofd, i) == ofd[tab[dobj[FrameDir(st, i)].dir]].pos

\* The entry that follows the k-th real entry of directory n, if any.
Following(n, k) ==
    IF k < Len(RealEntries(n)) THEN RealEntries(n)[k + 1] ELSE NullOpt

\* C16: dereferencing an iterator and rendering the child it produced, the
\* child's whole subtree included, leaves the read position of the parent's
\* stream where it was: the position of the stream of a frame moves only in
\* the step of that frame that runs operator++, so the parent resumes at
\* the entry that follows the child.
C16_ParentCursorKept ==
    /\ [](\A fr \in FileFrames :
             (fr.pc = "after" /\ ReadsCleanly(fr)) =>
                fr.next.d_name = Following(fr.f.name, Len(fr.yielded)))
    /\ [][\A i \in 2..Len(stack) :
             (/\ i <= Len(stack')
              /\ FrameDir(stack, i) # 0
              /\ ~(i = Len(stack) /\ stack[i].pc = "loop")) =>
                 /\ FrameDir(stack', i) = FrameDir(stack, i)
                 /\ PosOf(stack', dirobj', fdtab', ofds', i) =
                       PosOf(stack, dirobj, fdtab, ofds, i)]_vars

C16_Witness ==
    /\ Walking
    /\ Len(stack) = 3
    /\ Top.f.name = "B"
    /\ Top.pc = "exit"
    /\ Top.yielded = <<"E", "C">>
    /\ stack[2].pc = "after"
    /\ stack[2].next.d_name = "L"
    /\ PosOf(stack, dirobj, fdtab, ofds, 2) = 5
    /\ fdtab[fdobj[Top.f.at].fd] = fdtab[dirobj[FrameDir(stack, 2)].dir]

\* C17: on every return print_rec leaves lines as it was when the call was
\* made: a node other than the root holds one flag more, its own, from its
\* line on and removes it on return; the root holds none; a call cut off by
\* depth = 0 changes neither lines nor the output.
C17_LinesRestored ==
    /\ [](Walking =>
             /\ lines = IF Top.pc = "entry" \/ Top.first
                        THEN Top.lines0
                        ELSE Append(Top.lines0, ~Top.last)
             /\ \A i \in 2..(Len(stack) - 1) :
                   stack[i + 1].lines0 =
                      IF stack[i].first THEN stack[i].lines0
                      ELSE Append(stack[i].lines0, ~stack[i].last))
    /\ [](phase = "done" => lines = <<>>)
    /\ [][(Walking /\ Len(stack') < Len(stack)) => lines' = Top.lines0]_vars
    /\ [][(Walking /\ Top.pc = "entry" /\ Top.depth = 0) =>
             /\ Len(stack') < Len(stack)
             /\ lines' = lines
             /\ out' = out]_vars

C17_Witness ==
    /\ Walking
    /\ Len(stack) = 3
    /\ Top.f.name = "B"
    /\ Top.pc = "loop"
    /\ Top.yielded = <<"E", "C">>
    /\ Top.lines0 = <<>>
    /\ lines = <<TRUE>>
    /\ Occurs("D.txt", out)

\* The active print_rec frames of directory nodes.
DirFrames == {i \in 2..Len(stack) : stack[i].kind = "file" /\ is_dir(stack[i].f)}

\* The active print_rec frames below the root's.
NonRootFrames == {i \in 3..Len(stack) : TRUE}

\* The duplicate held by the file_t temporary of a call that has returned
\* and whose full expression is not yet over: 1 if there is one.
PendingDup ==
    IF Walking /\ Top.pc = "after" /\ Top.tmp \in LiveDups THEN 1 ELSE 0

\* C18 as stated: at every point of a walk the open directory streams are
\* at most as many as the active frames of directory nodes and the live
\* duplicated descriptors at most as many as the active frames below the
\* root.
C18_DupsWithinFrames ==
    phase # "handles" =>
        /\ Cardinality(OpenStreams) <= Cardinality(DirFrames)
        /\ Cardinality(LiveDups) <= Cardinality(NonRootFrames)

\* C18: at every point of a walk the open directory streams are at most as
\* many as the active frames of directory nodes, one stream per frame,
\* shared by its it and next; the live duplicated descriptors are at most
\* as many as the active frames below the root (the call whose argument
\* temporary is not yet destroyed counted in); both numbers are back at
\* their earlier value when a call returns.
C18_HandlesPerFrame ==
    /\ [](phase # "handles" =>
            /\ Cardinality(OpenStreams) <= Cardinality(DirFrames)
            /\ Cardinality(LiveDups) <= Cardinality(NonRootFrames) + PendingDup
            /\ \A fr \in Frames :
                  (fr.it.dir # 0 /\ fr.next.dir # 0) => fr.it.dir = fr.next.dir
            /\ \A o \in OpenStreams :
                  /\ Cardinality({i \in DirFrames : FrameDir(stack, i) = o}) = 1
                  /\ \A i \in DirFrames :
                        FrameDir(stack, i) = o =>
                           dirobj[o].rc = Cost(stack[i].it.dir = o)
                                             + Cost(stack[i].next.dir = o))
    /\ [][(Walking /\ Len(stack') < Len(stack)) =>
             /\ Cardinality(OpenStreams') = Top.streams0
             /\ Cardinality(LiveDups') = Top.dups0 + PendingDup']_vars
    /\ [][(Walking /\ Top.pc = "after") =>
             /\ Cardinality(OpenStreams') = Cardinality(OpenStreams)
             /\ Cardinality(LiveDups') = Cardinality(LiveDups) - PendingDup]_vars

C18_Witness ==
    /\ Walking
    /\ Len(stack) = 5
    /\ Top.f.name = "D.txt"
    /\ Top.pc = "exit"
    /\ Cardinality(DirFrames) = 3
    /\ Cardinality(OpenStreams) = 3
    /\ Cardinality(LiveDups) = 3
    /\ Top.streams0 = 3 /\ Top.dups0 = 2

\* Where the names, the newlines and the error annotations are in the output.
NamePos == {i \in 1..Len(out) : out[i] \in Nodes}

NewlinePos == {i \in 1..Len(out) : out[i] = NL}

ErrTexts == {ErrText(e) : e \in {"fstatat", "openat", "fdopendir", "readdir"}}

\* C19: in every execution of print, error paths included, the line of each
\* node (prefix, glyph, display form, inline error) is ended by exactly one
\* newline before anything of another node is written.
C19_OneNewlinePerLine ==
    /\ \A i, j \in NamePos :
          (i < j /\ \A k \in NamePos : ~(i < k /\ k < j)) =>
             /\ Cardinality({k \in NewlinePos : i < k /\ k < j}) = 1
             /\ \A k \in (i + 1)..(j - 1) :
                   out[k] \in Glyphs => \E n \in NewlinePos : i < n /\ n < k
    /\ \A k \in NewlinePos : k > 1 /\ out[k - 1] # NL
    /\ \A k \in 1..Len(out) :
          /\ out[k] \in ErrTexts =>
                /\ k > 2 /\ out[k - 1] = Space
                /\ out[k - 2] \in Nodes \cup ErrTexts
                /\ k < Len(out) => out[k + 1] \in {NL, Space}
          /\ out[k] \in Glyphs => k < Len(out) /\ out[k + 1] \in Glyphs \cup Nodes
    /\ \A fr \in FileFrames :
          /\ fr.pc \in {"begin", "errchk"} =>
                \A k \in NewlinePos : k <= fr.mark
          /\ fr.pc \in {"loop", "deref", "after", "exit"} =>
                \E k \in NewlinePos :
                   /\ k > fr.mark
                   /\ \A n \in NamePos :
                         (fr.mark < n /\ n < k) =>
                            /\ out[n] = fr.f.name
                            /\ \A m \in NamePos : (fr.mark < m /\ m < k) => m = n
    /\ phase = "done" =>
          /\ out # <<>>
          /\ out[Len(out)] = NL
          /\ Cardinality(NewlinePos) = Cardinality(NamePos)

C19_Witness ==
    /\ phase = "done"
    /\ Occurs(ErrText("fstatat"), out)
    /\ Occurs(ErrText("openat"), out)
    /\ Cardinality(NamePos) >= 3
    /\ Cardinality(NewlinePos) = Cardinality(NamePos)

\* The frame at index i is of a directory at the level of the depth limit.
AtLimit(i) ==
    /\ depthArg >= 0
    /\ i - 2 = depthArg
    /\ stack[i].kind = "file"
    /\ stack[i].pc # "entry"
    /\ Kind(stack[i].f.name) = "dir"
    /\ stack[i].f.err_ = NoErr

\* C20: with a depth limit d, a directory printed at level d is still
\* opened and its stream read to the end, each entry dereferenced and
\* stat'ed, though none of its entries is printed; an open failure of such
\* a directory is shown on its line.
C20_LimitDirStillRead ==
    \A i \in 2..Len(stack) :
        LET fr == stack[i]
        IN  AtLimit(i) =>
               /\ Level(fr.f.name) = depthArg
               /\ fr.depth = 0
               /\ fr.pc # "begin" => fr.opened
               /\ (fr.openerr # NoErr /\ fr.pc \in {"loop", "deref", "after", "exit"}) =>
                     /\ Inline(fr, fr.openerr)
                     /\ fr.yielded = <<>>
               /\ Cardinality({n \in NamePos : n > fr.mark}) = 1
               /\ (ReadsCleanly(fr) /\ fr.pc = "exit") =>
                     /\ fr.yielded = RealEntries(fr.f.name)
                     /\ Len(fr.kids) = Len(fr.yielded)
                     /\ Drained(fr.it)
                     /\ Written(fr)[Len(Written(fr))] = NL
               /\ i < Len(stack) =>
                     LET kid == stack[i + 1]
                     IN  /\ kid.depth = 0 /\ kid.pc = "entry"
                         /\ kid.f.name = fr.yielded[Len(fr.yielded)]
                         /\ \/ kid.f.err_ = "fstatat"
                            \/ kid.f.mode = ModeOf(Kind(kid.f.name))

C20_Witness ==
    /\ Walking
    /\ depthArg = 1
    /\ Len(stack) = 3
    /\ AtLimit(3)
    /\ Top.f.name = "B"
    /\ Top.pc = "exit"
    /\ ReadsCleanly(Top)
    /\ Top.yielded = <<"E", "C">>
    /\ Drained(Top.it)
    /\ Written(Top) = <<Branch, "B", NL>>

====
